---------------------------- MODULE Spec2Model ----------------------------
(***************************************************************************)
(* A model of coreason-chronos: the Allen interval algebra, the causality  *)
(* engine, the compliance validator, the TemporalEvent validators and the  *)
(* timeline extractor.                                                     *)
(*                                                                         *)
(* A datetime is a record [wall, aware, off]: wall is the wall-clock       *)
(* reading in microseconds, aware is FALSE when tzinfo is None, and off is *)
(* the UTC offset in microseconds (0 on a naive datetime).  Python         *)
(* compares and subtracts two aware datetimes on their absolute instants   *)
(* (wall - offset).                                                        *)
(***************************************************************************)
EXTENDS Integers, Sequences, FiniteSets, TLC

VARIABLES
    input,      \* the arguments of the calls of the pure operations
    out,        \* the outcome of each call made so far, by call label
    ex          \* the frame (position and locals) of extract_events in progress

vars == <<input, out, ex>>

-----------------------------------------------------------------------------
(* Bounds of the model *)

\* wall-clock readings of the interval endpoints range over 0..MaxInstant
MaxInstant == 3
\* UTC offsets of aware datetimes range over 0..MaxOffset
MaxOffset == 1
\* event timestamps fall on minute 0..MaxMinute, durations are 0..MaxMinute
MaxMinute == 1

\* max_delay ranges over -1..MaxDelay microseconds
MaxDelay == 2

\* a text has 1..MaxClauses clauses
MaxClauses == 3
\* the length in characters of a run of unrelated text
FillerLen == 60

\* timedelta(minutes=1) and timedelta(microseconds=1), in microseconds
Minute == 60000000
Microsecond == 1

-----------------------------------------------------------------------------
(* datetime *)

IsAware(dt) == dt.aware

Aware(wall, off) == [wall |-> wall, aware |-> TRUE, off |-> off]
NaiveDt(wall) == [wall |-> wall, aware |-> FALSE, off |-> 0]

\* datetime.astimezone(timezone.utc) of an aware datetime
astimezone_utc(dt) == Aware(dt.wall - dt.off, 0)

\* the absolute instant two aware datetimes are compared on; a naive one is
\* compared (with another naive one) on its wall-clock reading
Instant(dt) == IF IsAware(dt) THEN dt.wall - dt.off ELSE dt.wall

\* comparing (<, <=, >, >=) a naive with an aware datetime raises TypeError
Mixed(x, y) == IsAware(x) # IsAware(y)

\* x == y of two datetimes: never raises, a naive and an aware one differ
DtEq(x, y) == ~Mixed(x, y) /\ Instant(x) = Instant(y)
DtLt(x, y) == Instant(x) < Instant(y)

Offsets == 0..MaxOffset
AwareInstants == {Aware(w, o) : w \in 0..MaxInstant, o \in Offsets}
Instants == AwareInstants \cup {NaiveDt(w) : w \in 0..MaxInstant}

-----------------------------------------------------------------------------
(* outcomes of a call *)

\* no call of extract_events is in progress
NoFrame == [pc |-> "none"]

Returned(v) == [raised |-> "none", val |-> v]
Raised(e) == [raised |-> e, val |-> "none"]

-----------------------------------------------------------------------------
(* causality.AllenRelation / utils.algebra.IntervalRelation *)

AllenRelation ==
    {"BEFORE", "AFTER", "MEETS", "MET_BY", "OVERLAPS", "OVERLAPPED_BY", "STARTS",
     "STARTED_BY", "FINISHES", "FINISHED_BY", "DURING", "CONTAINS", "EQUALS"}

\* the conditions of causality.get_interval_relation, in the order tested
CausalityOrder ==
    <<"BEFORE", "AFTER", "MEETS", "MET_BY", "OVERLAPS", "OVERLAPPED_BY", "STARTS",
      "STARTED_BY", "FINISHES", "FINISHED_BY", "DURING", "CONTAINS", "EQUALS">>

\* a plausible slip: the OVERLAPS test without its last comparison
CausalityCond_overlaps(r, start_a, end_a, start_b, end_b) ==
    CASE r = "BEFORE" -> DtLt(end_a, start_b)
      [] r = "AFTER" -> DtLt(end_b, start_a)
      [] r = "MEETS" -> DtEq(end_a, start_b)
      [] r = "MET_BY" -> DtEq(start_a, end_b)
      [] r = "OVERLAPS" -> DtLt(start_a, start_b) /\ DtLt(start_b, end_a)
      [] r = "OVERLAPPED_BY" ->
            DtLt(start_b, start_a) /\ DtLt(start_a, end_b) /\ DtLt(end_b, end_a)
      [] r = "STARTS" -> DtEq(start_a, start_b) /\ DtLt(end_a, end_b)
      [] r = "STARTED_BY" -> DtEq(start_a, start_b) /\ DtLt(end_b, end_a)
      [] r = "FINISHES" -> DtEq(end_a, end_b) /\ DtLt(start_b, start_a)
      [] r = "FINISHED_BY" -> DtEq(end_a, end_b) /\ DtLt(start_a, start_b)
      [] r = "DURING" -> DtLt(start_b, start_a) /\ DtLt(end_a, end_b)
      [] r = "CONTAINS" -> DtLt(start_a, start_b) /\ DtLt(end_b, end_a)
      [] r = "EQUALS" -> DtEq(start_a, start_b) /\ DtEq(end_a, end_b)

\* a plausible slip: FINISHES copied from FINISHED_BY with the comparison unturned
CausalityCond_finishes(r, start_a, end_a, start_b, end_b) ==
    CASE r = "BEFORE" -> DtLt(end_a, start_b)
      [] r = "AFTER" -> DtLt(end_b, start_a)
      [] r = "MEETS" -> DtEq(end_a, start_b)
      [] r = "MET_BY" -> DtEq(start_a, end_b)
      [] r = "OVERLAPS" ->
            DtLt(start_a, start_b) /\ DtLt(start_b, end_a) /\ DtLt(end_a, end_b)
      [] r = "OVERLAPPED_BY" ->
            DtLt(start_b, start_a) /\ DtLt(start_a, end_b) /\ DtLt(end_b, end_a)
      [] r = "STARTS" -> DtEq(start_a, start_b) /\ DtLt(end_a, end_b)
      [] r = "STARTED_BY" -> DtEq(start_a, start_b) /\ DtLt(end_b, end_a)
      [] r = "FINISHES" -> DtEq(end_a, end_b) /\ DtLt(start_a, start_b)
      [] r = "FINISHED_BY" -> DtEq(end_a, end_b) /\ DtLt(start_a, start_b)
      [] r = "DURING" -> DtLt(start_b, start_a) /\ DtLt(end_a, end_b)
      [] r = "CONTAINS" -> DtLt(start_a, start_b) /\ DtLt(end_b, end_a)
      [] r = "EQUALS" -> DtEq(start_a, start_b) /\ DtEq(end_a, end_b)

CausalityCond(r, start_a, end_a, start_b, end_b) ==
    CASE r = "BEFORE" -> DtLt(end_a, start_b)
      [] r = "AFTER" -> DtLt(end_b, start_a)
      [] r = "MEETS" -> DtEq(end_a, start_b)
      [] r = "MET_BY" -> DtEq(start_a, end_b)
      [] r = "OVERLAPS" ->
            DtLt(start_a, start_b) /\ DtLt(start_b, end_a) /\ DtLt(end_a, end_b)
      [] r = "OVERLAPPED_BY" ->
            DtLt(start_b, start_a) /\ DtLt(start_a, end_b) /\ DtLt(end_b, end_a)
      [] r = "STARTS" -> DtEq(start_a, start_b) /\ DtLt(end_a, end_b)
      [] r = "STARTED_BY" -> DtEq(start_a, start_b) /\ DtLt(end_b, end_a)
      [] r = "FINISHES" -> DtEq(end_a, end_b) /\ DtLt(start_b, start_a)
      [] r = "FINISHED_BY" -> DtEq(end_a, end_b) /\ DtLt(start_a, start_b)
      [] r = "DURING" -> DtLt(start_b, start_a) /\ DtLt(end_a, end_b)
      [] r = "CONTAINS" -> DtLt(start_a, start_b) /\ DtLt(end_b, end_a)
      [] r = "EQUALS" -> DtEq(start_a, start_b) /\ DtEq(end_a, end_b)

\* the first relation of CausalityOrder[i..] whose condition holds; the
\* trailing "unreachable" raise when none does
RECURSIVE CausalityFirst(_, _, _, _, _)
CausalityFirst(i, start_a, end_a, start_b, end_b) ==
    IF i > Len(CausalityOrder) THEN Raised("ValueError")
    ELSE IF CausalityCond(CausalityOrder[i], start_a, end_a, start_b, end_b)
    THEN Returned(CausalityOrder[i])
    ELSE CausalityFirst(i + 1, start_a, end_a, start_b, end_b)

\* a plausible slip: the validity checks written with > for >=, so that a
\* point interval is classified
get_interval_relation_points(start_a, end_a, start_b, end_b) ==
    IF \E dt \in {start_a, end_a, start_b, end_b} : ~IsAware(dt)
    THEN Raised("ValueError")
    ELSE IF DtLt(end_a, start_a) THEN Raised("ValueError")
    ELSE IF DtLt(end_b, start_b) THEN Raised("ValueError")
    ELSE CausalityFirst(1, start_a, end_a, start_b, end_b)

\* causality.get_interval_relation
get_interval_relation(start_a, end_a, start_b, end_b) ==
    IF \E dt \in {start_a, end_a, start_b, end_b} : ~IsAware(dt)
    THEN Raised("ValueError")
    ELSE IF ~DtLt(start_a, end_a) THEN Raised("ValueError")
    ELSE IF ~DtLt(start_b, end_b) THEN Raised("ValueError")
    ELSE CausalityFirst(1, start_a, end_a, start_b, end_b)

\* the conditions of utils.algebra.get_interval_relation, in the order tested
AlgebraOrder ==
    <<"EQUALS", "BEFORE", "AFTER", "MEETS", "MET_BY", "STARTS", "STARTED_BY",
      "FINISHES", "FINISHED_BY", "DURING", "CONTAINS", "OVERLAPS", "OVERLAPPED_BY">>

AlgebraCond(r, start1, end1, start2, end2) ==
    CASE r = "EQUALS" -> DtEq(start1, start2) /\ DtEq(end1, end2)
      [] r = "BEFORE" -> DtLt(end1, start2)
      [] r = "AFTER" -> DtLt(end2, start1)
      [] r = "MEETS" -> DtEq(end1, start2)
      [] r = "MET_BY" -> DtEq(start1, end2)
      [] r = "STARTS" -> DtEq(start1, start2) /\ DtLt(end1, end2)
      [] r = "STARTED_BY" -> DtEq(start1, start2) /\ DtLt(end2, end1)
      [] r = "FINISHES" -> DtEq(end1, end2) /\ DtLt(start2, start1)
      [] r = "FINISHED_BY" -> DtEq(end1, end2) /\ DtLt(start1, start2)
      [] r = "DURING" -> DtLt(start2, start1) /\ DtLt(end1, end2)
      [] r = "CONTAINS" -> DtLt(start1, start2) /\ DtLt(end2, end1)
      [] r = "OVERLAPS" ->
            DtLt(start1, start2) /\ DtLt(start2, end1) /\ DtLt(end1, end2)
      [] r = "OVERLAPPED_BY" ->
            DtLt(start2, start1) /\ DtLt(start1, end2) /\ DtLt(end2, end1)

\* the first relation of AlgebraOrder[i..] whose condition holds; the trailing
\* raise when none does
RECURSIVE AlgebraFirst(_, _, _, _, _)
AlgebraFirst(i, start1, end1, start2, end2) ==
    IF i > Len(AlgebraOrder) THEN Raised("ValueError")
    ELSE IF AlgebraCond(AlgebraOrder[i], start1, end1, start2, end2)
    THEN Returned(AlgebraOrder[i])
    ELSE AlgebraFirst(i + 1, start1, end1, start2, end2)

\* utils.algebra.get_interval_relation: no awareness check of its own, so an
\* ordering comparison of a naive with an aware endpoint raises TypeError
algebra_get_interval_relation(start1, end1, start2, end2) ==
    IF Mixed(start1, end1) THEN Raised("TypeError")
    ELSE IF ~DtLt(start1, end1) THEN Raised("ValueError")
    ELSE IF Mixed(start2, end2) THEN Raised("TypeError")
    ELSE IF ~DtLt(start2, end2) THEN Raised("ValueError")
    ELSE IF Mixed(start1, start2) THEN Raised("TypeError")
    ELSE AlgebraFirst(1, start1, end1, start2, end2)

-----------------------------------------------------------------------------
(* SpecAllen: the two classifiers applied to one pair of intervals *)

AllenInputs == [start_a : Instants, end_a : Instants, start_b : Instants, end_b : Instants]

InitAllen ==
    /\ input \in AllenInputs
    /\ out = <<>>
    /\ ex = NoFrame

Called(label) == label \in DOMAIN out

\* causality.get_interval_relation(A, B)
CallRelationAB ==
    /\ ~Called("relation_ab")
    /\ out' = out @@ ("relation_ab" :>
                get_interval_relation(input.start_a, input.end_a, input.start_b, input.end_b))
    /\ UNCHANGED <<input, ex>>

\* causality.get_interval_relation(B, A)
CallRelationBA ==
    /\ ~Called("relation_ba")
    /\ out' = out @@ ("relation_ba" :>
                get_interval_relation(input.start_b, input.end_b, input.start_a, input.end_a))
    /\ UNCHANGED <<input, ex>>

\* utils.algebra.get_interval_relation(A, B)
CallAlgebraAB ==
    /\ ~Called("algebra_ab")
    /\ out' = out @@ ("algebra_ab" :>
                algebra_get_interval_relation(input.start_a, input.end_a,
                                              input.start_b, input.end_b))
    /\ UNCHANGED <<input, ex>>

NextAllen == CallRelationAB \/ CallRelationBA \/ CallAlgebraAB

SpecAllen == InitAllen /\ [][NextAllen]_vars

\* the precondition of the algebra: aware endpoints, start < end on both
ValidIntervals ==
    /\ \A f \in {"start_a", "end_a", "start_b", "end_b"} : IsAware(input[f])
    /\ DtLt(input.start_a, input.end_a)
    /\ DtLt(input.start_b, input.end_b)

\* the decision-table rows that hold of the input
RowsHolding ==
    {r \in AllenRelation :
        CausalityCond(r, input.start_a, input.end_a, input.start_b, input.end_b)}

\* C1: on valid aware intervals exactly one of the thirteen decision-table
\* conditions holds, both classifiers return that relation (neither reaches
\* its trailing "unreachable" raise), so the order of the tests is immaterial.
C1_TotalExclusive ==
    ValidIntervals =>
        /\ Cardinality(RowsHolding) = 1
        /\ Called("relation_ab") =>
              /\ out["relation_ab"].raised = "none"
              /\ out["relation_ab"].val \in RowsHolding
        /\ Called("algebra_ab") =>
              /\ out["algebra_ab"].raised = "none"
              /\ out["algebra_ab"].val \in RowsHolding
        /\ (Called("relation_ab") /\ Called("algebra_ab")) =>
              out["relation_ab"] = out["algebra_ab"]

\* both classifiers have answered OVERLAPS, the row the two orders place
\* furthest apart, on intervals given in two different zones
C1_Witness ==
    /\ ValidIntervals
    /\ Called("relation_ab") /\ Called("algebra_ab")
    /\ out["relation_ab"] = Returned("OVERLAPS")
    /\ out["algebra_ab"] = Returned("OVERLAPS")
    /\ input.start_a.off # input.start_b.off

Converse(r) ==
    CASE r = "BEFORE" -> "AFTER"
      [] r = "AFTER" -> "BEFORE"
      [] r = "MEETS" -> "MET_BY"
      [] r = "MET_BY" -> "MEETS"
      [] r = "OVERLAPS" -> "OVERLAPPED_BY"
      [] r = "OVERLAPPED_BY" -> "OVERLAPS"
      [] r = "STARTS" -> "STARTED_BY"
      [] r = "STARTED_BY" -> "STARTS"
      [] r = "FINISHES" -> "FINISHED_BY"
      [] r = "FINISHED_BY" -> "FINISHES"
      [] r = "DURING" -> "CONTAINS"
      [] r = "CONTAINS" -> "DURING"
      [] r = "EQUALS" -> "EQUALS"

\* C2: on valid intervals relation(A, B) and relation(B, A) are converses.
C2_Converse ==
    (ValidIntervals /\ Called("relation_ab") /\ Called("relation_ba")) =>
        /\ out["relation_ab"].raised = "none"
        /\ out["relation_ba"].raised = "none"
        /\ out["relation_ba"].val = Converse(out["relation_ab"].val)

C2_Witness ==
    /\ ValidIntervals
    /\ Called("relation_ab") /\ Called("relation_ba")
    /\ out["relation_ab"] = Returned("FINISHED_BY")
    /\ out["relation_ba"] = Returned("FINISHES")

-----------------------------------------------------------------------------
(* schemas.TemporalEvent as the causality engine reads it.  An absent      *)
(* optional field has its has_ flag FALSE (and a fixed filler value).      *)

Event(timestamp, has_duration, duration_minutes, has_ends_at, ends_at) ==
    [timestamp |-> timestamp,
     has_duration |-> has_duration, duration_minutes |-> duration_minutes,
     has_ends_at |-> has_ends_at, ends_at |-> ends_at]

\* datetime + timedelta: the wall clock moves, tzinfo is kept
DtAdd(dt, delta) == [dt EXCEPT !.wall = dt.wall + delta]

\* a plausible slip: duration_minutes tested before ends_at
resolve_interval_duration_first(event) ==
    LET start == event.timestamp
        has_end == event.has_ends_at \/ event.has_duration
        end == IF event.has_duration THEN DtAdd(start, event.duration_minutes * Minute)
               ELSE event.ends_at
    IN IF ~has_end \/ ~DtLt(start, end)
       THEN [start |-> start, end |-> DtAdd(start, Microsecond)]
       ELSE [start |-> start, end |-> end]

\* CausalityEngine._resolve_interval
resolve_interval(event) ==
    LET start == event.timestamp
        has_end == event.has_ends_at \/ event.has_duration
        end == IF event.has_ends_at THEN event.ends_at
               ELSE DtAdd(start, event.duration_minutes * Minute)
    IN IF ~has_end \/ ~DtLt(start, end)
       THEN [start |-> start, end |-> DtAdd(start, Microsecond)]
       ELSE [start |-> start, end |-> end]

\* CausalityEngine.get_relation
get_relation(event_a, event_b) ==
    LET a == resolve_interval(event_a)
        b == resolve_interval(event_b)
    IN get_interval_relation(a.start, a.end, b.start, b.end)

\* a plausible slip: STARTED_BY left out of the plausible relations
plausible_relations_short ==
    {"BEFORE", "MEETS", "OVERLAPS", "FINISHED_BY", "CONTAINS", "STARTS", "EQUALS"}

\* a plausible slip: BEFORE left out, a cause having to touch its effect
plausible_relations_touching ==
    {"MEETS", "OVERLAPS", "FINISHED_BY", "CONTAINS", "STARTS", "STARTED_BY", "EQUALS"}

\* a plausible slip: EQUALS left out, a cause having to differ from its effect
plausible_relations_strict ==
    {"BEFORE", "MEETS", "OVERLAPS", "FINISHED_BY", "CONTAINS", "STARTS", "STARTED_BY"}

plausible_relations ==
    {"BEFORE", "MEETS", "OVERLAPS", "FINISHED_BY", "CONTAINS", "STARTS",
     "STARTED_BY", "EQUALS"}

ReturnedBool(b) == [raised |-> "none", val |-> b]
RaisedBool(e) == [raised |-> e, val |-> FALSE]

\* a plausible slip: the relation computed outside the try block
is_plausible_cause_notrap(cause, effect) ==
    LET relation == get_relation(cause, effect)
    IN IF relation.raised # "none" THEN RaisedBool(relation.raised)
       ELSE ReturnedBool(relation.val \in plausible_relations)

\* CausalityEngine.is_plausible_cause: except ValueError -> return False
is_plausible_cause(cause, effect) ==
    LET relation == get_relation(cause, effect)
    IN IF relation.raised = "ValueError" THEN ReturnedBool(FALSE)
       ELSE IF relation.raised # "none" THEN RaisedBool(relation.raised)
       ELSE ReturnedBool(relation.val \in plausible_relations)

-----------------------------------------------------------------------------
(* SpecCausality: the engine applied to a pair of events *)

EventWalls == {m * Minute + u * Microsecond : m \in 0..MaxMinute, u \in 0..1}
EventOffsets == {0, Minute}

\* the ends an event may carry: one microsecond or one minute after its start
EndGaps == {Microsecond, Minute}

\* events that pass the validators of schemas.TemporalEvent
ValidEvents ==
    {Event(Aware(w, o), hd, IF hd THEN d ELSE 0, FALSE, Aware(0, 0)) :
        w \in EventWalls, o \in EventOffsets, hd \in BOOLEAN, d \in 0..MaxMinute}
    \cup
    {Event(Aware(w, o), hd, IF hd THEN d ELSE 0, TRUE, Aware(w + g, o)) :
        w \in EventWalls, o \in EventOffsets, hd \in BOOLEAN, d \in 0..MaxMinute,
        g \in EndGaps}

\* events built without validation (model_construct) from naive datetimes
NaiveEvents ==
    {Event(NaiveDt(w), hd, IF hd THEN d ELSE 0, FALSE, NaiveDt(0)) :
        w \in EventWalls, hd \in BOOLEAN, d \in 0..MaxMinute}
    \cup
    {Event(NaiveDt(w), FALSE, 0, TRUE, NaiveDt(w + g)) : w \in EventWalls, g \in EndGaps}

InitCausality ==
    /\ input \in [cause : ValidEvents \cup NaiveEvents, effect : ValidEvents \cup NaiveEvents]
    /\ out = <<>>
    /\ ex = NoFrame

\* engine.get_relation(cause, effect)
CallGetRelation ==
    /\ ~Called("get_relation")
    /\ out' = out @@ ("get_relation" :> get_relation(input.cause, input.effect))
    /\ UNCHANGED <<input, ex>>

\* engine.is_plausible_cause(cause, effect)
CallIsPlausibleCause ==
    /\ ~Called("is_plausible_cause")
    /\ out' = out @@ ("is_plausible_cause" :> is_plausible_cause(input.cause, input.effect))
    /\ UNCHANGED <<input, ex>>

NextCausality == CallGetRelation \/ CallIsPlausibleCause

SpecCausality == InitCausality /\ [][NextCausality]_vars

BothValid == input.cause \in ValidEvents /\ input.effect \in ValidEvents

\* C3: on valid events is_plausible_cause is true exactly when the relation of
\* the resolved intervals is one of the eight plausible ones, which is exactly
\* when cause.start <= effect.start (false exactly for AFTER, MET_BY,
\* OVERLAPPED_BY, FINISHES, DURING).
C3_PlausibleIffStartsNoLater ==
    (BothValid /\ Called("is_plausible_cause") /\ Called("get_relation")) =>
        LET rel == out["get_relation"]
            res == out["is_plausible_cause"]
        IN /\ rel.raised = "none" /\ res.raised = "none"
           /\ res.val <=> rel.val \in {"BEFORE", "MEETS", "OVERLAPS", "FINISHED_BY",
                                       "CONTAINS", "STARTS", "STARTED_BY", "EQUALS"}
           /\ res.val <=> ~DtLt(input.effect.timestamp, input.cause.timestamp)
           /\ ~res.val <=> rel.val \in {"AFTER", "MET_BY", "OVERLAPPED_BY",
                                        "FINISHES", "DURING"}

\* a cause that starts with the effect and outlasts it is plausible
C3_Witness ==
    /\ BothValid /\ Called("is_plausible_cause") /\ Called("get_relation")
    /\ out["get_relation"] = Returned("STARTED_BY")
    /\ out["is_plausible_cause"] = ReturnedBool(TRUE)
    /\ input.cause.timestamp.off # input.effect.timestamp.off

-----------------------------------------------------------------------------
(* validator.MaxDelayRule *)

\* a plausible slip: <= 0 for < 0, refusing the zero delay
MaxDelayRule_positive(max_delay) ==
    IF max_delay <= 0 THEN [raised |-> "ValueError", max_delay |-> 0]
    ELSE [raised |-> "none", max_delay |-> max_delay]

\* MaxDelayRule.__init__
MaxDelayRule(max_delay) ==
    IF max_delay < 0 THEN [raised |-> "ValueError", max_delay |-> 0]
    ELSE [raised |-> "none", max_delay |-> max_delay]

NoResult(e) == [raised |-> e, is_compliant |-> FALSE, drift |-> 0, has_message |-> FALSE]

\* a plausible slip: the deadline taken on the wall clocks, without astimezone
validate_wallclock(self, target_time, reference_time) ==
    IF ~IsAware(target_time) \/ ~IsAware(reference_time) THEN NoResult("ValueError")
    ELSE LET deadline == reference_time.wall + self.max_delay
             drift == target_time.wall - deadline
             is_compliant == target_time.wall <= deadline
         IN [raised |-> "none", is_compliant |-> is_compliant, drift |-> drift,
             has_message |-> ~is_compliant]

\* a plausible slip: only target_time is tested, and a naive reference_time
\* is taken as UTC
validate_target_only(self, target_time, reference_time) ==
    IF ~IsAware(target_time) THEN NoResult("ValueError")
    ELSE LET ref_utc == IF IsAware(reference_time) THEN astimezone_utc(reference_time)
                        ELSE Aware(reference_time.wall, 0)
             target_utc == astimezone_utc(target_time)
             deadline == DtAdd(ref_utc, self.max_delay)
             drift == target_utc.wall - deadline.wall
             is_compliant == ~DtLt(deadline, target_utc)
         IN [raised |-> "none", is_compliant |-> is_compliant, drift |-> drift,
             has_message |-> ~is_compliant]

\* MaxDelayRule.validate
validate(self, target_time, reference_time) ==
    IF ~IsAware(target_time) \/ ~IsAware(reference_time) THEN NoResult("ValueError")
    ELSE LET ref_utc == astimezone_utc(reference_time)
             target_utc == astimezone_utc(target_time)
             deadline == DtAdd(ref_utc, self.max_delay)
             drift == target_utc.wall - deadline.wall
             is_compliant == ~DtLt(deadline, target_utc)
         IN [raised |-> "none", is_compliant |-> is_compliant, drift |-> drift,
             has_message |-> ~is_compliant]

-----------------------------------------------------------------------------
(* SpecValidate: a rule is constructed, then applied *)

InitValidate ==
    /\ input \in [target : Instants, reference : Instants, max_delay : -1..MaxDelay]
    /\ out = <<>>
    /\ ex = NoFrame

\* rule = MaxDelayRule(max_delay)
ConstructRule ==
    /\ ~Called("rule")
    /\ out' = out @@ ("rule" :> MaxDelayRule(input.max_delay))
    /\ UNCHANGED <<input, ex>>

\* rule.validate(target, reference), on a rule that was constructed
CallValidate ==
    /\ Called("rule") /\ out["rule"].raised = "none"
    /\ ~Called("validate")
    /\ out' = out @@ ("validate" :> validate(out["rule"], input.target, input.reference))
    /\ UNCHANGED <<input, ex>>

NextValidate == ConstructRule \/ CallValidate

SpecValidate == InitValidate /\ [][NextValidate]_vars

\* the absolute (UTC) instant of an aware datetime
Utc(dt) == dt.wall - dt.off

\* C4: on aware instants validate returns drift = target - (reference + d)
\* taken on absolute instants and is_compliant exactly when drift <= 0; at
\* target = reference + d the drift is zero and the result compliant, one
\* microsecond later the drift is positive and the result a violation.
C4_DriftAndCompliance ==
    (Called("validate") /\ IsAware(input.target) /\ IsAware(input.reference)) =>
        LET res == out["validate"]
            d == input.max_delay
            t == Utc(input.target)
            r == Utc(input.reference)
        IN /\ res.raised = "none"
           /\ res.drift = t - (r + d)
           /\ res.is_compliant <=> res.drift <= 0
           /\ t = r + d => (res.drift = 0 /\ res.is_compliant)
           /\ t = r + d + Microsecond => (res.drift = Microsecond /\ ~res.is_compliant)

\* the boundary, reached with target and reference in different zones
C4_Witness ==
    /\ Called("validate")
    /\ IsAware(input.target) /\ IsAware(input.reference)
    /\ input.target.off # input.reference.off
    /\ input.max_delay > 0
    /\ Utc(input.target) = Utc(input.reference) + input.max_delay
    /\ out["validate"].is_compliant /\ out["validate"].drift = 0

-----------------------------------------------------------------------------
(* The validators of the two TemporalEvent classes *)

NoEvent(e) == [raised |-> e, event |-> Event(NaiveDt(0), FALSE, 0, FALSE, NaiveDt(0))]
Built(event) == [raised |-> "none", event |-> event]

\* schemas.TemporalEvent: timestamp_must_be_timezone_aware,
\* duration_must_be_non_negative, then ends_at_must_be_after_timestamp (whose
\* <= raises TypeError on a naive ends_at)
schemas_TemporalEvent(timestamp, has_duration, duration_minutes, has_ends_at, ends_at) ==
    IF ~IsAware(timestamp) THEN NoEvent("ValidationError")
    ELSE IF has_duration /\ duration_minutes < 0 THEN NoEvent("ValidationError")
    ELSE IF has_ends_at /\ Mixed(ends_at, timestamp) THEN NoEvent("TypeError")
    ELSE IF has_ends_at /\ ~DtLt(timestamp, ends_at) THEN NoEvent("ValidationError")
    ELSE Built(Event(timestamp, has_duration, duration_minutes, has_ends_at, ends_at))

\* models.TemporalEvent.enforce_utc on a datetime that is set
enforce_utc(v) == IF v.off # 0 THEN astimezone_utc(v) ELSE v

\* models.TemporalEvent: Field(ge=0), enforce_utc on timestamp and ends_at,
\* then check_duration_consistency
models_TemporalEvent(timestamp, has_duration, duration_minutes, has_ends_at, ends_at) ==
    IF ~IsAware(timestamp) THEN NoEvent("ValidationError")
    ELSE IF has_duration /\ duration_minutes < 0 THEN NoEvent("ValidationError")
    ELSE IF has_ends_at /\ ~IsAware(ends_at) THEN NoEvent("ValidationError")
    ELSE LET ts == enforce_utc(timestamp)
             en == IF has_ends_at THEN enforce_utc(ends_at) ELSE ends_at
             calculated_end == DtAdd(ts, duration_minutes * Minute)
         IN IF has_duration /\ has_ends_at /\ ~DtEq(calculated_end, en)
            THEN NoEvent("ValidationError")
            ELSE Built(Event(ts, has_duration, duration_minutes, has_ends_at, en))

-----------------------------------------------------------------------------
(* SpecEvent: one set of constructor arguments given to both classes *)

EventDatetimes ==
    {Aware(w, o) : w \in EventWalls, o \in EventOffsets} \cup {NaiveDt(w) : w \in EventWalls}

InitEvent ==
    /\ input \in {Event(ts, hd, IF hd THEN d ELSE 0, he, IF he THEN en ELSE NaiveDt(0)) :
                    ts \in EventDatetimes, hd \in BOOLEAN, d \in -1..MaxMinute,
                    he \in BOOLEAN, en \in EventDatetimes}
    /\ out = <<>>
    /\ ex = NoFrame

\* schemas.TemporalEvent(...)
ConstructSchemasEvent ==
    /\ ~Called("schemas")
    /\ out' = out @@ ("schemas" :>
                schemas_TemporalEvent(input.timestamp, input.has_duration,
                                      input.duration_minutes, input.has_ends_at, input.ends_at))
    /\ UNCHANGED <<input, ex>>

\* models.TemporalEvent(...)
ConstructModelsEvent ==
    /\ ~Called("models")
    /\ out' = out @@ ("models" :>
                models_TemporalEvent(input.timestamp, input.has_duration,
                                     input.duration_minutes, input.has_ends_at, input.ends_at))
    /\ UNCHANGED <<input, ex>>

NextEvent == ConstructSchemasEvent \/ ConstructModelsEvent

SpecEvent == InitEvent /\ [][NextEvent]_vars

\* the invariants of a TemporalEvent
EventInvariants(e) ==
    /\ IsAware(e.timestamp)
    /\ e.has_duration => e.duration_minutes >= 0
    /\ e.has_ends_at => (IsAware(e.ends_at) /\ DtLt(e.timestamp, e.ends_at))
    /\ (e.has_duration /\ e.has_ends_at) =>
          DtEq(DtAdd(e.timestamp, e.duration_minutes * Minute), e.ends_at)

\* C8: a TemporalEvent that is constructed satisfies the invariants (aware
\* timestamp, duration >= 0, ends_at > timestamp, timestamp + duration =
\* ends_at), and construction fails on arguments that do not.
C8_ConstructedEventsValid ==
    \A class \in {"schemas", "models"} :
        Called(class) => (out[class].raised = "none" <=> EventInvariants(input))

-----------------------------------------------------------------------------
(* The text given to the timeline extractor.                               *)
(*                                                                         *)
(* A text is written as a sequence of tokens, with one space between       *)
(* tokens and none before a terminator; as a value it is the sequence of   *)
(* its tokens, each with its character offset.  A snippet, an anchor       *)
(* phrase and a match are strings of their own: sequences of tokens        *)
(* without offsets.  The extractor's wall clocks are in seconds from       *)
(* 2024-01-01T00:00.                                                       *)

DateToks == {"Jan 1", "Feb 2"}
NumToks == {"2 days", "3 days", "3000000 days"}
DirToks == {"after", "before"}
Terminator == "."
Filler == "xxxx"

\* a word of a token: its text after lower(), its offset in the token and
\* its length
Piece(w, off, len) == [w |-> w, off |-> off, len |-> len]

\* the words of a token
Pieces(tok) ==
    CASE tok = "Start" -> <<Piece("start", 0, 5)>>
      [] tok = "Middle" -> <<Piece("middle", 0, 6)>>
      [] tok = "middle" -> <<Piece("middle", 0, 6)>>
      [] tok = "End" -> <<Piece("end", 0, 3)>>
      [] tok = "on" -> <<Piece("on", 0, 2)>>
      [] tok = "Jan 1" -> <<Piece("jan", 0, 3), Piece("1", 4, 1)>>
      [] tok = "Feb 2" -> <<Piece("feb", 0, 3), Piece("2", 4, 1)>>
      [] tok = "2 days" -> <<Piece("2", 0, 1), Piece("days", 2, 4)>>
      [] tok = "3 days" -> <<Piece("3", 0, 1), Piece("days", 2, 4)>>
      [] tok = "3000000 days" -> <<Piece("3000000", 0, 7), Piece("days", 8, 4)>>
      [] tok = "after" -> <<Piece("after", 0, 5)>>
      [] tok = "before" -> <<Piece("before", 0, 6)>>
      [] tok = "for" -> <<Piece("for", 0, 3)>>
      [] tok = Filler -> <<Piece("xxxx", 0, FillerLen)>>
      [] tok = Terminator -> <<>>

TokLen(tok) ==
    IF tok = Terminator THEN 1
    ELSE LET last == Pieces(tok)[Len(Pieces(tok))] IN last.off + last.len

\* the tokens made of word characters and spaces only ([\w\s]+)
IsWordish(tok) == tok # Terminator

\* 1 when a space follows token i of the string toks
Gap(toks, i) == IF i < Len(toks) /\ toks[i + 1] # Terminator THEN 1 ELSE 0

\* the offset of token i in the string toks
RECURSIVE Offset(_, _)
Offset(toks, i) ==
    IF i = 1 THEN 0
    ELSE Offset(toks, i - 1) + TokLen(toks[i - 1]) + Gap(toks, i - 1)

\* len(toks)
StrLen(toks) == IF toks = <<>> THEN 0 ELSE Offset(toks, Len(toks)) + TokLen(toks[Len(toks)])

\* the text that the string toks is
TextOf(toks) == [i \in 1..Len(toks) |-> [tok |-> toks[i], start |-> Offset(toks, i)]]

TokStart(text, i) == text[i].start
TokEnd(text, i) == text[i].start + TokLen(text[i].tok)

\* len(text)
TextLen(text) == IF text = <<>> THEN 0 ELSE TokEnd(text, Len(text))

\* text[a..b] as a string
Toks(text, a, b) == [k \in 1..(b - a + 1) |-> text[a + k - 1].tok]

\* the words of the text with their offsets
TextPieces(text) ==
    UNION {{[w |-> Pieces(text[i].tok)[k].w,
             lo |-> text[i].start + Pieces(text[i].tok)[k].off,
             hi |-> text[i].start + Pieces(text[i].tok)[k].off + Pieces(text[i].tok)[k].len]
            : k \in 1..Len(Pieces(text[i].tok))} : i \in 1..Len(text)}

\* the words of the slice text[lo:hi]; a word the slice cuts leaves a piece
\* that is no word of any anchor phrase
WordsIn(text, lo, hi) ==
    {p.w : p \in {q \in TextPieces(text) : lo <= q.lo /\ q.hi <= hi}}

\* the words of a run of tokens
WordsOf(toks) == UNION {{Pieces(toks[i])[k].w : k \in 1..Len(Pieces(toks[i]))}
                        : i \in 1..Len(toks)}

\* the character at offset i is a space
IsSpace(text, i) ==
    /\ 0 <= i /\ i < TextLen(text)
    /\ \A p \in TextPieces(text) : ~(p.lo <= i /\ i < p.hi)
    /\ \A j \in 1..Len(text) : ~(text[j].tok = Terminator /\ TokStart(text, j) = i)

Max(a, b) == IF a >= b THEN a ELSE b
Min(a, b) == IF a <= b THEN a ELSE b

\* the context window of _get_context_description and of the masking
window == 50
\* description[:20]
HeadLen == 20

\* TimelineExtractor._get_context_description: the words of the description
\* and, for the description[:20] a derived event quotes, the words of its
\* first 20 characters
get_context_description(text, start, end) ==
    LET ctx_start == Max(0, start - window)
        ctx_end == Min(TextLen(text), end + window)
        lo == IF IsSpace(text, ctx_start) THEN ctx_start + 1 ELSE ctx_start
    IN [words |-> WordsIn(text, lo, ctx_end),
        head |-> WordsIn(text, lo, Min(lo + HeadLen, ctx_end))]

\* str.lower() on a token
Lower(tok) == IF tok = "Middle" THEN "middle" ELSE tok

\* the token sequence pat occurs at token i, case ignored when fold
OccursAt(text, pat, i, fold) ==
    /\ i + Len(pat) - 1 <= Len(text)
    /\ \A k \in 1..Len(pat) :
          IF fold THEN Lower(text[i + k - 1].tok) = Lower(pat[k])
          ELSE text[i + k - 1].tok = pat[k]

\* TimelineExtractor._find_snippet_index: text.find(snippet, start_index),
\* the offset of the first occurrence at or after start_index, -1 when none
find_snippet_index(text, snippet, start_index) ==
    LET hits == {i \in 1..Len(text) :
                    OccursAt(text, snippet, i, FALSE) /\ TokStart(text, i) >= start_index}
    IN IF hits = {} THEN -1
       ELSE TokStart(text, CHOOSE i \in hits : \A j \in hits : i <= j)

-----------------------------------------------------------------------------
(* DURATION_REGEX, ANCHOR_REGEX and the duration parser *)

\* the number of a number-and-unit token in tenths, and its unit
NumTenths(tok) ==
    CASE tok = "2 days" -> 20 [] tok = "3 days" -> 30 [] tok = "3000000 days" -> 30000000
NumUnit(tok) == "day"

\* a plausible slip: the unit without its optional plural s
IsPureDuration_singular(snippet) ==
    /\ Len(snippet) = 1 /\ snippet[1] \in NumToks /\ NumTenths(snippet[1]) % 10 = 0
    /\ Pieces(snippet[1])[2].w \in {"year", "month", "week", "day", "hour", "minute", "second"}

\* DURATION_REGEX.match: digits, whitespace, a unit and nothing else
IsPureDuration(snippet) ==
    Len(snippet) = 1 /\ snippet[1] \in NumToks /\ NumTenths(snippet[1]) % 10 = 0

SecondsPerDay == 86400
SecondsPerHour == 3600

UnitSeconds(unit) ==
    CASE unit = "seconds" -> 1 [] unit = "minutes" -> 60 [] unit = "hours" -> 3600
      [] unit = "days" -> 86400 [] unit = "weeks" -> 604800

\* TimelineExtractor._parse_duration: both branches pass int(value)
parse_duration(tenths, unit) == [unit |-> unit \o "s", n |-> tenths \div 10]

\* datetime + relativedelta (sign 1) and datetime - relativedelta (sign -1)
\* for a fixed unit
AddDelta(dt, delta, sign) ==
    [dt EXCEPT !.wall = dt.wall + sign * delta.n * UnitSeconds(delta.unit)]

\* the days from 2024-01-01 to datetime.max and to datetime.min
MaxDay == 2913173
MinDay == -738885

\* the whole days of a delta
DeltaDays(delta) ==
    IF UnitSeconds(delta.unit) >= SecondsPerDay
    THEN delta.n * (UnitSeconds(delta.unit) \div SecondsPerDay)
    ELSE (delta.n * UnitSeconds(delta.unit)) \div SecondsPerDay

\* datetime + relativedelta and datetime - relativedelta raise OverflowError
\* when the result is outside datetime.min .. datetime.max
Overflows(dt, delta, sign) ==
    LET day == dt.wall \div SecondsPerDay + sign * DeltaDays(delta)
    IN day > MaxDay \/ day < MinDay

\* the token at which an anchor match starting at token i ends: the first
\* terminator after the anchor phrase, or the end of the text
AnchorStop(text, i) ==
    LET terms == {j \in (i + 3)..Len(text) : text[j].tok = Terminator}
    IN IF terms = {} THEN Len(text) ELSE CHOOSE j \in terms : \A k \in terms : j <= k

\* ANCHOR_REGEX matches at token i: a number with unit, a direction, and at
\* least one character of anchor phrase
AnchorAt(text, i) ==
    /\ i + 2 <= Len(text)
    /\ text[i].tok \in NumToks /\ text[i + 1].tok \in DirToks
    /\ IsWordish(text[i + 2].tok)

AnchorCandidate(text, i) ==
    LET stop == AnchorStop(text, i)
        last == IF text[stop].tok = Terminator THEN stop - 1 ELSE stop
    IN [duration_val |-> NumTenths(text[i].tok), unit |-> NumUnit(text[i].tok),
        direction |-> text[i + 1].tok,
        anchor_phrase |-> Toks(text, i + 2, last),
        start |-> TokStart(text, i), end |-> TokEnd(text, stop),
        full_match |-> Toks(text, i, stop)]

\* TimelineExtractor._extract_anchored_candidates: finditer from token i on,
\* the matches not overlapping
RECURSIVE extract_anchored_candidates(_, _)
extract_anchored_candidates(text, i) ==
    IF i > Len(text) THEN <<>>
    ELSE IF AnchorAt(text, i)
    THEN <<AnchorCandidate(text, i)>>
             \o extract_anchored_candidates(text, AnchorStop(text, i) + 1)
    ELSE extract_anchored_candidates(text, i + 1)

-----------------------------------------------------------------------------
(* The date phrase parser (dateparser.search.search_dates), as the         *)
(* extractor configures it.  It reads every date phrase, and a number with *)
(* unit as a relative date, together with the direction that follows it    *)
(* when there is one; a number whose date no datetime can hold it does not *)
(* read.                                                                   *)

\* the datetime the parser gives a date phrase: "Jan 1" naive at midnight,
\* "Feb 2" with a time of day and an offset of one hour
DateObj(tok) ==
    CASE tok = "Jan 1" -> NaiveDt(0)
      [] tok = "Feb 2" -> Aware(32 * SecondsPerDay + 11 * SecondsPerHour, SecondsPerHour)

\* the snippet read at token i, <<>> when none is
ParsedSnippet(text, i, reference_date) ==
    IF text[i].tok \in DateToks THEN <<text[i].tok>>
    ELSE IF /\ text[i].tok \in NumToks
            /\ ~Overflows(reference_date,
                          parse_duration(NumTenths(text[i].tok), NumUnit(text[i].tok)), -1)
            /\ ~Overflows(reference_date,
                          parse_duration(NumTenths(text[i].tok), NumUnit(text[i].tok)), 1)
    THEN IF i < Len(text) /\ text[i + 1].tok \in DirToks
         THEN <<text[i].tok, text[i + 1].tok>>
         ELSE <<text[i].tok>>
    ELSE <<>>

\* RELATIVE_BASE is reference_date.replace(tzinfo=None); the result is in UTC
ParsedDate(snippet, reference_date) ==
    IF snippet[1] \in DateToks THEN DateObj(snippet[1])
    ELSE LET delta == parse_duration(NumTenths(snippet[1]), NumUnit(snippet[1]))
             sign == IF Len(snippet) = 2 /\ snippet[2] = "after" THEN 1 ELSE -1
         IN AddDelta(Aware(reference_date.wall, 0), delta, sign)

RECURSIVE search_dates(_, _, _)
search_dates(text, i, reference_date) ==
    IF i > Len(text) THEN <<>>
    ELSE LET snippet == ParsedSnippet(text, i, reference_date)
         IN IF snippet = <<>> THEN search_dates(text, i + 1, reference_date)
            ELSE <<[source_snippet |-> snippet,
                    date_obj |-> ParsedDate(snippet, reference_date)]>>
                    \o search_dates(text, i + Len(snippet), reference_date)

-----------------------------------------------------------------------------
(* TimelineExtractor.extract_events: Pass 1 and the pruning *)

\* lines 184-187: a naive parser result is taken as UTC, an aware one is
\* converted to UTC
normalize_tz_keep(date_obj) ==
    IF ~IsAware(date_obj) THEN Aware(date_obj.wall, 0) ELSE date_obj

normalize_tz(date_obj) ==
    IF ~IsAware(date_obj) THEN Aware(date_obj.wall, 0) ELSE astimezone_utc(date_obj)

\* lines 199-206: DATE_ONLY at midnight; no snippet of the texts holds "00:00"
granularity_of(date_obj) ==
    IF date_obj.wall % SecondsPerDay = 0 THEN "DATE_ONLY" ELSE "PRECISE"

\* an event of the extractor: id stands for the uuid4, the n-th event made;
\* duration_minutes and ends_at are not passed and stay None
ExtractedEvent(id, description, timestamp, granularity, source_snippet) ==
    [id |-> id, description |-> description, timestamp |-> timestamp,
     granularity |-> granularity, source_snippet |-> source_snippet,
     has_duration |-> FALSE, duration_minutes |-> 0,
     has_ends_at |-> FALSE, ends_at |-> NaiveDt(0)]

Meta(event, start, end, is_anchored) ==
    [event |-> event, start |-> start, end |-> end, is_anchored |-> is_anchored]

\* lines 175-224: the loop over the parser's results from the i-th on
RECURSIVE StandardEvents(_, _, _, _, _)
StandardEvents(text, extracted_dates, i, search_cursor, metas) ==
    IF i > Len(extracted_dates) THEN metas
    ELSE LET source_snippet == extracted_dates[i].source_snippet
             date_obj == normalize_tz(extracted_dates[i].date_obj)
             found == find_snippet_index(text, source_snippet, search_cursor)
             start_idx == IF found = -1 THEN find_snippet_index(text, source_snippet, 0)
                          ELSE found
             end_idx == start_idx + StrLen(source_snippet)
             event == ExtractedEvent(Len(metas) + 1,
                                     get_context_description(text, start_idx, end_idx),
                                     date_obj, granularity_of(date_obj),
                                     WordsOf(source_snippet))
         IN IF IsPureDuration(source_snippet)
            THEN StandardEvents(text, extracted_dates, i + 1, search_cursor, metas)
            ELSE IF start_idx = -1
            THEN StandardEvents(text, extracted_dates, i + 1, search_cursor, metas)
            ELSE StandardEvents(text, extracted_dates, i + 1, start_idx + 1,
                                Append(metas, Meta(event, start_idx, end_idx, FALSE)))

\* set(range(a, b)).intersection(range(c, d)) is not empty
RangesMeet(a, b, c, d) == Max(a, c) < Min(b, d)

\* a plausible slip: resolved_events_meta an attribute of the extractor,
\* which the calls of all threads append to
prune_shared(metas, anchored_candidates) ==
    (IF Called("parked") THEN out["parked"].ex.resolved_events_meta ELSE <<>>)
        \o SelectSeq(metas, LAMBDA meta :
               \A k \in 1..Len(anchored_candidates) :
                   ~RangesMeet(anchored_candidates[k].start, anchored_candidates[k].end,
                               meta.start, meta.end))

\* a plausible slip: an event is dropped only when its span is the span of
\* a candidate
prune_same_span(metas, anchored_candidates) ==
    SelectSeq(metas, LAMBDA meta :
        \A k \in 1..Len(anchored_candidates) :
            ~(anchored_candidates[k].start = meta.start
                /\ anchored_candidates[k].end = meta.end))

\* a plausible slip: resolved_events_meta kept on the extractor, so that a
\* later call starts from the events of the call before it
prune_kept(metas, anchored_candidates) ==
    (IF Called("first") THEN out["first_meta"] ELSE <<>>)
        \o SelectSeq(metas, LAMBDA meta :
               \A k \in 1..Len(anchored_candidates) :
                   ~RangesMeet(anchored_candidates[k].start, anchored_candidates[k].end,
                               meta.start, meta.end))

\* lines 235-245: the standard events that meet no candidate's span
prune(metas, anchored_candidates) ==
    SelectSeq(metas, LAMBDA meta :
        \A k \in 1..Len(anchored_candidates) :
            ~RangesMeet(anchored_candidates[k].start, anchored_candidates[k].end,
                        meta.start, meta.end))

-----------------------------------------------------------------------------
(* Strategy A: the events nearest to the occurrences of the anchor phrase *)

\* lines 102-111 and 314-319: the gap between two spans, 0 when they overlap
SpanDist(target_start, target_end, e_start, e_end) ==
    IF Max(target_start, e_start) < Min(target_end, e_end) THEN 0
    ELSE IF target_end <= e_start THEN e_start - target_end
    ELSE target_start - e_end

\* no event
None == 0

\* TimelineExtractor._find_closest_event: the index in events_meta of the
\* first event at the least distance, None when events_meta is empty
find_closest_event(target_start, target_end, events_meta) ==
    LET d(k) == SpanDist(target_start, target_end, events_meta[k].start, events_meta[k].end)
        idx == 1..Len(events_meta)
    IN IF idx = {} THEN None
       ELSE CHOOSE k \in idx : \A j \in idx : d(k) < d(j) \/ (d(k) = d(j) /\ k <= j)

\* re.finditer(re.escape(anchor_phrase), text, re.IGNORECASE) from token i
\* on: the token indexes of the occurrences, left to right, not overlapping
RECURSIVE finditer(_, _, _)
finditer(text, anchor_phrase, i) ==
    IF i > Len(text) THEN <<>>
    ELSE IF OccursAt(text, anchor_phrase, i, TRUE)
    THEN <<i>> \o finditer(text, anchor_phrase, i + Len(anchor_phrase))
    ELSE finditer(text, anchor_phrase, i + 1)

\* best_match_event and min_dist_global before anything is found
NoMatch == [event |-> None, dist |-> -1]

\* lines 289-323: the loop over the occurrences from the n-th on
RECURSIVE StrategyA(_, _, _, _, _, _)
StrategyA(text, cand, metas, occs, n, best) ==
    IF n > Len(occs) THEN best
    ELSE LET occ_start == TokStart(text, occs[n])
             occ_end == TokEnd(text, occs[n] + Len(cand.anchor_phrase) - 1)
             match_meta == find_closest_event(occ_start, occ_end, metas)
             dist == SpanDist(occ_start, occ_end,
                              metas[match_meta].start, metas[match_meta].end)
         IN IF Max(cand.start, occ_start) < Min(cand.end, occ_end)
            THEN StrategyA(text, cand, metas, occs, n + 1, best)
            ELSE IF match_meta # None /\ (best.event = None \/ dist < best.dist)
            THEN StrategyA(text, cand, metas, occs, n + 1,
                           [event |-> match_meta, dist |-> dist])
            ELSE StrategyA(text, cand, metas, occs, n + 1, best)

-----------------------------------------------------------------------------
(* Strategy B: the events whose context holds the words of the anchor *)

stop_words == {"the", "a", "an", "of", "to", "in", "on", "at", "for", "with", "by"}

\* TimelineExtractor._calculate_semantic_score on word sets: the ratio as
\* numerator and denominator, 0.0 as 0 over 1
calculate_semantic_score(anchor, target_text) ==
    LET anchor_tokens == anchor \ stop_words
        target_tokens == target_text \ stop_words
    IN IF anchor_tokens = {} THEN [num |-> 0, den |-> 1]
       ELSE [num |-> Cardinality(anchor_tokens \cap target_tokens),
             den |-> Cardinality(anchor_tokens)]

\* the words of the description of a derived event (line 440)
DerivedDescription(cand, referent) ==
    [words |-> {"derived", "from", "anchor", "linked", "to"}
                  \cup WordsOf(cand.full_match) \cup referent.description.head,
     head |-> {"derived", "from", "anchor"}]

\* lines 347-373: the words scored for an event, the candidate's own span
\* masked out of the event's window when the two meet
masked_desc(text, cand, meta) ==
    LET d_start == Max(0, meta.start - window)
        d_end == Min(TextLen(text), meta.end + window)
    IN IF Max(d_start, cand.start) < Min(d_end, cand.end)
       THEN WordsIn(text, d_start, Max(d_start, cand.start))
                \cup WordsIn(text, Min(d_end, cand.end), d_end)
       ELSE meta.event.description.words

\* lines 376-378: the larger of the two scores; both are over the anchor's
\* words, so the larger ratio is the larger numerator
EventScore(text, cand, meta) ==
    LET anchor == WordsOf(cand.anchor_phrase)
        score_desc == calculate_semantic_score(anchor, masked_desc(text, cand, meta))
        score_snip == calculate_semantic_score(anchor, meta.event.source_snippet)
    IN IF score_desc.num >= score_snip.num THEN score_desc ELSE score_snip

\* score >= 0.5
ScoreQualifies(score) == 2 * score.num >= score.den

\* lines 382-386
FuzzyDist(cand, meta) ==
    Max(0, IF cand.start > meta.start THEN cand.start - meta.end
           ELSE meta.start - cand.end)

\* lines 328-393: the head of fuzzy_candidates after the stable sort by
\* (-score, dist), None when the list is empty
fuzzy_best(text, cand, metas) ==
    LET score == [k \in 1..Len(metas) |-> EventScore(text, cand, metas[k])]
        fuzzy == {k \in 1..Len(metas) : ScoreQualifies(score[k])}
        d(k) == FuzzyDist(cand, metas[k])
        before(k, j) == score[k].num > score[j].num
                            \/ (score[k].num = score[j].num /\ d(k) < d(j))
    IN IF fuzzy = {} THEN None
       ELSE CHOOSE k \in fuzzy :
                \A j \in fuzzy : before(k, j) \/ (~before(j, k) /\ k <= j)

\* lines 390-428: the fuzzy best takes the place of the event Strategy A
\* found only with a score of 1.0 at a smaller distance
combine(text, cand, metas, exact, best_candidate) ==
    IF best_candidate = None THEN exact.event
    ELSE IF exact.event = None THEN best_candidate
    ELSE IF /\ EventScore(text, cand, metas[best_candidate]).num
                  >= EventScore(text, cand, metas[best_candidate]).den
            /\ FuzzyDist(cand, metas[best_candidate]) < exact.dist
    THEN best_candidate
    ELSE exact.event

\* lines 283-428: the index in metas of the event the candidate is linked
\* to, None when there is none
best_match(text, cand, metas) ==
    combine(text, cand, metas,
            StrategyA(text, cand, metas, finditer(text, cand.anchor_phrase, 1), 1, NoMatch),
            fuzzy_best(text, cand, metas))

\* a plausible slip: the direction is not looked at and the offset is added
DerivedMeta_after(cand, referent, id) ==
    LET delta == parse_duration(cand.duration_val, cand.unit)
        new_time == AddDelta(referent.timestamp, delta, 1)
    IN Meta(ExtractedEvent(id, DerivedDescription(cand, referent), new_time,
                           referent.granularity, WordsOf(cand.full_match)),
            cand.start, cand.end, TRUE)

\* lines 432-454: the event derived from the candidate and its referent
DerivedMeta(cand, referent, id) ==
    LET delta == parse_duration(cand.duration_val, cand.unit)
        new_time == AddDelta(referent.timestamp, delta,
                             IF cand.direction = "after" THEN 1 ELSE -1)
    IN Meta(ExtractedEvent(id, DerivedDescription(cand, referent), new_time,
                           referent.granularity, WordsOf(cand.full_match)),
            cand.start, cand.end, TRUE)

\* lines 468-469: list.sort(key=timestamp), a stable sort, here by insertion
RECURSIVE InsertByTimestamp(_, _)
InsertByTimestamp(sorted, e) ==
    IF sorted = <<>> THEN <<e>>
    ELSE IF DtLt(e.timestamp, sorted[Len(sorted)].timestamp)
    THEN Append(InsertByTimestamp(SubSeq(sorted, 1, Len(sorted) - 1), e),
                sorted[Len(sorted)])
    ELSE Append(sorted, e)

RECURSIVE SortFirst(_, _)
SortFirst(events, n) ==
    IF n = 0 THEN <<>> ELSE InsertByTimestamp(SortFirst(events, n - 1), events[n])

sort_unsorted(events) == events

sort_by_timestamp(events) == SortFirst(events, Len(events))

-----------------------------------------------------------------------------
(* TimelineExtractor.extract_events as a process: ex is its frame *)

\* the clauses the texts are made of
StartOnJan == <<"Start", "on", "Jan 1", Terminator>>
StartOnFeb == <<"Start", "on", "Feb 2", Terminator>>
FarStartOnJan == <<Filler, "Start", "on", "Jan 1", Terminator>>
MiddleAfterStart == <<"Middle", "2 days", "after", "Start", Terminator>>
EndAfterMiddle == <<"End", "3 days", "after", "middle", Terminator>>
EndBeforeStartMiddle == <<"End", "3 days", "before", "Start", "Middle", Terminator>>
EndForDays == <<"End", "2 days", Terminator>>
EndOfTime == <<"End", "3000000 days", "after", "Start", Terminator>>
Unrelated == <<Filler>>

Clauses == {StartOnJan, StartOnFeb, FarStartOnJan, MiddleAfterStart, EndAfterMiddle,
            EndBeforeStartMiddle, EndForDays, EndOfTime, Unrelated}

RECURSIVE Flatten(_)
Flatten(clauses) ==
    IF clauses = <<>> THEN <<>> ELSE Head(clauses) \o Flatten(Tail(clauses))

Texts == {TextOf(Flatten(cs)) : cs \in UNION {[1..n -> Clauses] : n \in 1..MaxClauses}}

\* 2024-03-01T00:00
ReferenceWall == 60 * SecondsPerDay

ExtractInputs ==
    [text : Texts,
     reference_date : {Aware(ReferenceWall, 0), NaiveDt(ReferenceWall)}]

Frame(pc, metas, cands, unresolved, still, i, iteration, progress, made, links) ==
    [pc |-> pc, resolved_events_meta |-> metas, anchored_candidates |-> cands,
     unresolved_candidates |-> unresolved, still_unresolved |-> still, i |-> i,
     iteration |-> iteration, progress_made |-> progress, made |-> made,
     links |-> links]

EntryFrame == Frame("entry", <<>>, <<>>, <<>>, <<>>, 1, 0, FALSE, 0, <<>>)

InitExtract ==
    /\ input \in ExtractInputs
    /\ out = <<>>
    /\ ex = EntryFrame

\* lines 157-252: the check of the reference date, Pass 1, the candidates
\* and the pruning
BeginExtraction ==
    /\ ex.pc = "entry"
    /\ IF ~IsAware(input.reference_date)
       THEN /\ out' = out @@ ("extract_events" :> Raised("ValueError"))
            /\ ex' = [ex EXCEPT !.pc = "done"]
       ELSE LET extracted_dates == search_dates(input.text, 1, input.reference_date)
                standard == StandardEvents(input.text, extracted_dates, 1, 0, <<>>)
                anchored_candidates == extract_anchored_candidates(input.text, 1)
            IN /\ ex' = Frame("loop", prune(standard, anchored_candidates),
                              anchored_candidates, anchored_candidates, <<>>, 1, 0,
                              FALSE, Len(standard), <<>>)
               /\ out' = out
    /\ UNCHANGED input

\* a plausible slip: the cap one short of the number of candidates
max_iterations_short == Len(ex.anchored_candidates) - 1

max_iterations == Len(ex.anchored_candidates) + 1

\* a plausible slip: progress_made set for every candidate tried, resolved
\* or not
Resolved_progress(cand, best_match_event) ==
    IF best_match_event # None
    THEN [ex EXCEPT
            !.resolved_events_meta =
                Append(@, DerivedMeta(cand, @[best_match_event].event, ex.made + 1)),
            !.made = @ + 1,
            !.progress_made = TRUE,
            !.links = Append(@, [cand |-> cand, referent |-> best_match_event,
                                 n |-> Len(ex.resolved_events_meta)]),
            !.i = @ + 1]
    ELSE [ex EXCEPT !.still_unresolved = Append(@, cand), !.progress_made = TRUE,
                    !.i = @ + 1]

\* a plausible slip: the new event put at the head of the resolved list
Resolved_insert(cand, best_match_event) ==
    IF best_match_event # None
    THEN [ex EXCEPT
            !.resolved_events_meta =
                <<DerivedMeta(cand, @[best_match_event].event, ex.made + 1)>> \o @,
            !.made = @ + 1,
            !.progress_made = TRUE,
            !.links = Append(@, [cand |-> cand, referent |-> best_match_event,
                                 n |-> Len(ex.resolved_events_meta)]),
            !.i = @ + 1]
    ELSE [ex EXCEPT !.still_unresolved = Append(@, cand), !.i = @ + 1]

\* a plausible slip: line 458 without its else, so that a resolved candidate
\* is tried again in the next iteration
Resolved_retry(cand, best_match_event) ==
    IF best_match_event # None
    THEN [ex EXCEPT
            !.resolved_events_meta =
                Append(@, DerivedMeta(cand, @[best_match_event].event, ex.made + 1)),
            !.made = @ + 1,
            !.progress_made = TRUE,
            !.links = Append(@, [cand |-> cand, referent |-> best_match_event,
                                 n |-> Len(ex.resolved_events_meta)]),
            !.still_unresolved = Append(@, cand),
            !.i = @ + 1]
    ELSE [ex EXCEPT !.still_unresolved = Append(@, cand), !.i = @ + 1]

\* lines 430-458: the frame after the candidate is linked to the event
\* best_match_event, or left unresolved when that is None
Resolved(cand, best_match_event) ==
    IF best_match_event # None
    THEN [ex EXCEPT
            !.resolved_events_meta =
                Append(@, DerivedMeta(cand, @[best_match_event].event, ex.made + 1)),
            !.made = @ + 1,
            !.progress_made = TRUE,
            !.links = Append(@, [cand |-> cand, referent |-> best_match_event,
                                 n |-> Len(ex.resolved_events_meta)]),
            !.i = @ + 1]
    ELSE [ex EXCEPT !.still_unresolved = Append(@, cand), !.i = @ + 1]

\* lines 431-436: the new time of the candidate linked to best_match_event
\* is outside the range of datetime
NewTimeOverflows(cand, best_match_event) ==
    /\ best_match_event # None
    /\ Overflows(ex.resolved_events_meta[best_match_event].event.timestamp,
                 parse_duration(cand.duration_val, cand.unit),
                 IF cand.direction = "after" THEN 1 ELSE -1)

\* lines 430-458: the candidate is resolved or kept, or the addition raises
Resolve(cand, best_match_event) ==
    IF NewTimeOverflows(cand, best_match_event)
    THEN /\ out' = out @@ ("extract_events" :> Raised("OverflowError"))
         /\ ex' = [ex EXCEPT !.pc = "done"]
    ELSE /\ ex' = Resolved(cand, best_match_event)
         /\ out' = out

\* lines 258-458: one pass of the loop over unresolved_candidates
ResolveCandidate ==
    /\ ex.pc = "loop"
    /\ ex.i <= Len(ex.unresolved_candidates)
    /\ Resolve(ex.unresolved_candidates[ex.i],
               best_match(input.text, ex.unresolved_candidates[ex.i],
                          ex.resolved_events_meta))
    /\ UNCHANGED input

\* lines 254 and 460-462: the end of one iteration of the resolution loop
EndIteration ==
    /\ ex.pc = "loop"
    /\ ex.i > Len(ex.unresolved_candidates)
    /\ LET leave == \/ ~ex.progress_made
                    \/ ex.still_unresolved = <<>>
                    \/ ex.iteration + 1 >= max_iterations
       IN ex' = [ex EXCEPT !.unresolved_candidates = ex.still_unresolved,
                           !.still_unresolved = <<>>,
                           !.progress_made = FALSE,
                           !.iteration = ex.iteration + 1,
                           !.i = 1,
                           !.pc = IF leave THEN "sort" ELSE "loop"]
    /\ UNCHANGED <<input, out>>

\* lines 468-472: the events, sorted by timestamp
ReturnEvents ==
    /\ ex.pc = "sort"
    /\ LET final_events == [k \in 1..Len(ex.resolved_events_meta) |->
                               ex.resolved_events_meta[k].event]
       IN out' = out @@ ("extract_events" :> Returned(sort_by_timestamp(final_events)))
    /\ ex' = [ex EXCEPT !.pc = "done"]
    /\ UNCHANGED input

NextExtract == BeginExtraction \/ ResolveCandidate \/ EndIteration \/ ReturnEvents

SpecExtract == InitExtract /\ [][NextExtract]_vars

\* extract_events has returned its events
Extracted == Called("extract_events") /\ out["extract_events"].raised = "none"

events == out["extract_events"].val

-----------------------------------------------------------------------------
(* Properties of extract_events *)

\* the place of an event in resolved_events_meta: its insertion order
InsertionOrder(e) ==
    CHOOSE k \in 1..Len(ex.resolved_events_meta) : ex.resolved_events_meta[k].event = e

\* C5: the events extract_events returns are in ascending order of
\* timestamp, and events with equal timestamps are in the order in which
\* they were inserted: the Pass-1 events that survive, in the order of the
\* text, then the anchored events in the order they were resolved.
C5_SortedStable ==
    Extracted =>
        \A i, j \in 1..Len(events) :
            i < j =>
                /\ ~DtLt(events[j].timestamp, events[i].timestamp)
                /\ DtEq(events[i].timestamp, events[j].timestamp)
                      => InsertionOrder(events[i]) < InsertionOrder(events[j])

\* the sort had work to do and a tie to keep: an event inserted later is
\* returned earlier, and two returned events have one timestamp
C5_Witness ==
    /\ Extracted
    /\ \E i, j \in 1..Len(events) :
          i < j /\ InsertionOrder(events[i]) > InsertionOrder(events[j])
    /\ \E i, j \in 1..Len(events) :
          i < j /\ DtEq(events[i].timestamp, events[j].timestamp)

\* the derived event of a candidate, by the candidate's span
DerivedOf(cand) ==
    {k \in 1..Len(ex.resolved_events_meta) :
        /\ ex.resolved_events_meta[k].is_anchored
        /\ ex.resolved_events_meta[k].start = cand.start}

\* the events of the resolved set that the candidate's anchor phrase
\* matches: those it scores at 0.5 or more
MatchedBy(cand) ==
    {k \in 1..Len(ex.resolved_events_meta) :
        /\ k \notin DerivedOf(cand)
        /\ ScoreQualifies(EventScore(input.text, cand, ex.resolved_events_meta[k]))}

\* c1 was resolved against a Pass-1 event, and the anchor phrase of c2
\* matches the event derived from c1 and no other
Chained(l, c2) ==
    /\ ~ex.resolved_events_meta[ex.links[l].referent].is_anchored
    /\ ex.links[l].cand # c2
    /\ MatchedBy(c2) # {}
    /\ MatchedBy(c2) = DerivedOf(ex.links[l].cand)

\* the timestamp the chain gives c2: that of c1's event plus or minus the
\* offset of c2
ChainedTime(l, c2) ==
    LET k == CHOOSE k \in DerivedOf(ex.links[l].cand) : TRUE
    IN AddDelta(ex.resolved_events_meta[k].event.timestamp,
                parse_duration(c2.duration_val, c2.unit),
                IF c2.direction = "after" THEN 1 ELSE -1)

\* C6: when candidate c1 resolves against a Pass-1 event and the anchor
\* phrase of candidate c2 matches only the event derived from c1, then at
\* the end of the extraction c2 is resolved too, at c1's timestamp plus or
\* minus c2's offset, whichever of the two is processed first.
C6_ChainResolved ==
    Extracted =>
        \A l \in 1..Len(ex.links) : \A n \in 1..Len(ex.anchored_candidates) :
            LET c2 == ex.anchored_candidates[n]
            IN Chained(l, c2) =>
                  \E k \in DerivedOf(c2) :
                      DtEq(ex.resolved_events_meta[k].event.timestamp, ChainedTime(l, c2))

\* the events a link had to choose from
Choice(l) == SubSeq(ex.resolved_events_meta, 1, ex.links[l].n)

LinkScore(l, k) == EventScore(input.text, ex.links[l].cand, Choice(l)[k])
LinkDist(l, k) == FuzzyDist(ex.links[l].cand, Choice(l)[k])

\* event k is a better referent for link l than event j: a higher score,
\* or the same score nearer to the candidate
Better(l, k, j) ==
    \/ LinkScore(l, k).num > LinkScore(l, j).num
    \/ LinkScore(l, k).num = LinkScore(l, j).num /\ LinkDist(l, k) < LinkDist(l, j)

\* C7: the referent of a resolved candidate is the event of the resolved
\* set with the highest score against the anchor phrase, the score being at
\* least 0.5, and among the events of that score the one nearest to the
\* candidate.
C7_BestScoreThenNearest ==
    \A l \in 1..Len(ex.links) :
        /\ ScoreQualifies(LinkScore(l, ex.links[l].referent))
        /\ \A k \in 1..ex.links[l].n :
              ScoreQualifies(LinkScore(l, k)) => ~Better(l, k, ex.links[l].referent)

\* C9: every event extract_events returns has an aware timestamp at offset
\* zero: a naive parser result is taken as UTC, an aware one is converted,
\* and the events derived from them stay in UTC.
C9_TimestampsUtc ==
    Extracted =>
        \A k \in 1..Len(events) :
            IsAware(events[k].timestamp) /\ events[k].timestamp.off = 0

\* returned together: an event of a naive parser result, one of an aware
\* parser result at another offset, and an event derived from the latter
C9_Witness ==
    /\ Extracted
    /\ \E k \in 1..Len(events) : events[k].source_snippet = WordsOf(<<"Jan 1">>)
    /\ \E k \in 1..Len(events) : events[k].source_snippet = WordsOf(<<"Feb 2">>)
    /\ \E l \in 1..Len(ex.links) :
          /\ Choice(l)[ex.links[l].referent].event.source_snippet = WordsOf(<<"Feb 2">>)
          /\ \E k \in 1..Len(events) : InsertionOrder(events[k]) = ex.links[l].n + 1

-----------------------------------------------------------------------------
(* Error handling of the interval algebra *)

\* the endpoints given to the classifiers
Endpoints == {input.start_a, input.end_a, input.start_b, input.end_b}

\* an interval the classifier must refuse: a naive endpoint, a point
\* interval or an inverted one
Refused ==
    \/ \E dt \in Endpoints : ~IsAware(dt)
    \/ ~DtLt(input.start_a, input.end_a)
    \/ ~DtLt(input.start_b, input.end_b)

\* C11: get_interval_relation raises, and returns no relation, whenever one
\* of the four endpoints is naive or an interval is a point or inverted, and
\* only then: the checks come before any classification.
C11_InvalidIntervalRaises ==
    Called("relation_ab") =>
        /\ Refused => out["relation_ab"] = Raised("ValueError")
        /\ ~Refused => out["relation_ab"].raised = "none"

\* refused though every endpoint is aware and B is well ordered: A is a
\* point interval
C11_Witness ==
    /\ Called("relation_ab")
    /\ out["relation_ab"] = Raised("ValueError")
    /\ \A dt \in Endpoints : IsAware(dt)
    /\ DtEq(input.start_a, input.end_a)
    /\ DtLt(input.start_b, input.end_b)

-----------------------------------------------------------------------------
(* Error handling of extract_events *)

\* C12: extract_events raises exactly when reference_date is naive; it then
\* raises before the date parser is invoked, so that no event and no
\* candidate has been made, and returns no events.
C12_RaisesOnlyOnNaiveReference ==
    Called("extract_events") =>
        /\ out["extract_events"].raised # "none" <=> ~IsAware(input.reference_date)
        /\ ~IsAware(input.reference_date) =>
              /\ out["extract_events"] = Raised("ValueError")
              /\ ex = [EntryFrame EXCEPT !.pc = "done"]

\* the events of resolved_events_meta
MetaEvents == {ex.resolved_events_meta[k].event : k \in 1..Len(ex.resolved_events_meta)}

\* the candidate whose resolution raised
RaisedAt == ex.unresolved_candidates[ex.i]

\* C13: extraction does not fail because an anchor cannot be resolved: when
\* it raises with an aware reference date, the candidate at which it raises
\* had a referent.  When it returns, each candidate has at most one event,
\* a candidate still unresolved has none, and the events returned are the
\* events that remain, sorted.
C13_UnresolvedAnchorsDropped ==
    /\ (Called("extract_events") /\ ~Extracted /\ IsAware(input.reference_date)) =>
          best_match(input.text, RaisedAt, ex.resolved_events_meta) # None
    /\ Extracted =>
          /\ \A n \in 1..Len(ex.anchored_candidates) :
                Cardinality(DerivedOf(ex.anchored_candidates[n])) <= 1
          /\ \A n \in 1..Len(ex.unresolved_candidates) :
                DerivedOf(ex.unresolved_candidates[n]) = {}
          /\ Len(events) = Len(ex.resolved_events_meta)
          /\ {events[k] : k \in 1..Len(events)} = MetaEvents
          /\ \A i, j \in 1..Len(events) :
                i < j => ~DtLt(events[j].timestamp, events[i].timestamp)

\* returned with a candidate left unresolved beside the events read in Pass 1
C13_Witness ==
    /\ Extracted
    /\ ex.unresolved_candidates # <<>>
    /\ ex.anchored_candidates # <<>>
    /\ Len(events) >= 1

-----------------------------------------------------------------------------
(* Error handling of MaxDelayRule *)

\* C14: validate raises and returns no result when target_time or
\* reference_time is naive, whichever of the two it is.
C14_NaiveTimeRaises ==
    (Called("validate") /\ (~IsAware(input.target) \/ ~IsAware(input.reference))) =>
        out["validate"] = NoResult("ValueError")

\* an aware target against a naive reference
C14_Witness ==
    /\ Called("validate")
    /\ IsAware(input.target) /\ ~IsAware(input.reference)
    /\ out["validate"].raised = "ValueError"

\* C15: MaxDelayRule raises and gives no rule exactly for a negative
\* max_delay; a rule of zero delay finds target = reference compliant and
\* any later target not.
C15_NegativeDelayRefused ==
    Called("rule") =>
        /\ input.max_delay < 0 =>
              /\ out["rule"].raised = "ValueError"
              /\ ~Called("validate")
        /\ input.max_delay >= 0 =>
              out["rule"] = [raised |-> "none", max_delay |-> input.max_delay]
        /\ (Called("validate") /\ input.max_delay = 0
               /\ IsAware(input.target) /\ IsAware(input.reference)) =>
              /\ out["validate"].raised = "none"
              /\ DtEq(input.target, input.reference) => out["validate"].is_compliant
              /\ DtLt(input.reference, input.target) => ~out["validate"].is_compliant

\* a rule of zero delay applied to the same instant in two zones
C15_Witness ==
    /\ Called("validate")
    /\ input.max_delay = 0
    /\ IsAware(input.target) /\ IsAware(input.reference)
    /\ DtEq(input.target, input.reference)
    /\ input.target.off # input.reference.off
    /\ out["validate"].is_compliant

-----------------------------------------------------------------------------
(* The engine applied to one event twice *)

\* C16: for a valid event a, point event or with a duration or with an
\* explicit ends_at, the relation of a with itself is EQUALS and
\* is_plausible_cause(a, a) is true.
C16_SelfCausePlausible ==
    (input.cause \in ValidEvents /\ input.effect = input.cause) =>
        /\ Called("get_relation") => out["get_relation"] = Returned("EQUALS")
        /\ Called("is_plausible_cause") => out["is_plausible_cause"] = ReturnedBool(TRUE)

\* an event with a duration of zero minutes, resolved to the default
\* interval of a point event, against itself
C16_Witness ==
    /\ input.cause \in ValidEvents /\ input.effect = input.cause
    /\ input.cause.has_duration /\ input.cause.duration_minutes = 0
    /\ ~input.cause.has_ends_at
    /\ Called("get_relation") /\ Called("is_plausible_cause")
    /\ out["is_plausible_cause"].val

-----------------------------------------------------------------------------
(* Pass 1 and the pruning *)

\* the parser read the token at i as a snippet of digits and a unit alone
PureDurationAt(i) ==
    /\ input.text[i].tok \in NumToks
    /\ ParsedSnippet(input.text, i, input.reference_date) = <<input.text[i].tok>>

PureDurations == {i \in 1..Len(input.text) : PureDurationAt(i)}

\* Pass 1 is over
Parsed == ex.pc # "entry" /\ IsAware(input.reference_date)

\* C17: no event is emitted for a parser result whose snippet is a pure
\* duration: no event has such a snippet as its source, no event's span
\* meets the place of one, and a text in which the parser read nothing else
\* gives no events.
C17_PureDurationIgnored ==
    Parsed =>
        /\ \A i \in PureDurations : \A k \in 1..Len(ex.resolved_events_meta) :
              /\ ex.resolved_events_meta[k].event.source_snippet
                     # WordsOf(<<input.text[i].tok>>)
              /\ ~RangesMeet(TokStart(input.text, i), TokEnd(input.text, i),
                             ex.resolved_events_meta[k].start,
                             ex.resolved_events_meta[k].end)
        /\ (\A i \in 1..Len(input.text) :
               ParsedSnippet(input.text, i, input.reference_date) # <<>> =>
                   i \in PureDurations) =>
              /\ ex.resolved_events_meta = <<>>
              /\ Extracted => events = <<>>

\* a text with a pure duration among dates that gave events
C17_Witness ==
    /\ Extracted
    /\ PureDurations # {}
    /\ events # <<>>

-----------------------------------------------------------------------------
(* SpecRepeat: extract_events called twice on the same arguments *)

RepeatClauses == {StartOnJan, StartOnFeb, MiddleAfterStart, EndBeforeStartMiddle}

RepeatTexts ==
    {TextOf(Flatten(cs)) : cs \in UNION {[1..n -> RepeatClauses] : n \in 1..MaxClauses}}

InitRepeat ==
    /\ input \in [text : RepeatTexts,
                  reference_date : {Aware(ReferenceWall, 0), NaiveDt(ReferenceWall)}]
    /\ out = <<>>
    /\ ex = EntryFrame

\* uuid4() gives no value twice: the n-th id drawn in the earlier call is
\* told apart from the n-th drawn in the later one by its sign
uuid4(call, n) == IF call = 1 THEN -n ELSE n

\* the outcome of the earlier call, with the ids that call drew
Earlier(outcome) ==
    IF outcome.raised # "none" THEN outcome
    ELSE Returned([k \in 1..Len(outcome.val) |->
                      [outcome.val[k] EXCEPT !.id = uuid4(1, @)]])

\* the first call is over and the same extractor is called again
CallAgain ==
    /\ ex.pc = "done"
    /\ Called("extract_events") /\ ~Called("first")
    /\ out' = ("first" :> Earlier(out["extract_events"]))
                 @@ ("first_meta" :> ex.resolved_events_meta)
    /\ ex' = EntryFrame
    /\ UNCHANGED input

NextRepeat ==
    BeginExtraction \/ ResolveCandidate \/ EndIteration \/ ReturnEvents \/ CallAgain

SpecRepeat == InitRepeat /\ [][NextRepeat]_vars

\* both calls are over
CalledTwice == Called("first") /\ Called("extract_events") /\ ex.pc = "done"

first == out["first"]
second == out["extract_events"]

-----------------------------------------------------------------------------
(* The referent of a resolved candidate *)

\* C19: a candidate is resolved only if some event of the resolved set it
\* chose from scores at least 0.5 against its anchor phrase, the
\* candidate's own span masked out of the event's window.
C19_ResolvedOnlyWithScore ==
    \A l \in 1..Len(ex.links) :
        \E k \in 1..ex.links[l].n : ScoreQualifies(LinkScore(l, k))

-----------------------------------------------------------------------------
(* The pruning of Pass 1 events *)

\* the parser read a snippet inside the span of the candidate
ReadInside(cand) ==
    \E i \in 1..Len(input.text) :
        /\ ParsedSnippet(input.text, i, input.reference_date) # <<>>
        /\ RangesMeet(cand.start, cand.end, TokStart(input.text, i), TokEnd(input.text, i))

\* C20: no event of Pass 1 has a span that meets the span of an anchor
\* candidate, resolved or not, and when extraction has returned no event at
\* all has a span that meets the span of a candidate left unresolved.
C20_NoPassOneEventInCandidate ==
    Parsed =>
        /\ \A k \in 1..Len(ex.resolved_events_meta) :
              ~ex.resolved_events_meta[k].is_anchored =>
                  \A n \in 1..Len(ex.anchored_candidates) :
                      ~RangesMeet(ex.anchored_candidates[n].start,
                                  ex.anchored_candidates[n].end,
                                  ex.resolved_events_meta[k].start,
                                  ex.resolved_events_meta[k].end)
        /\ Extracted =>
              \A k \in 1..Len(ex.resolved_events_meta) :
                  \A n \in 1..Len(ex.unresolved_candidates) :
                      ~RangesMeet(ex.unresolved_candidates[n].start,
                                  ex.unresolved_candidates[n].end,
                                  ex.resolved_events_meta[k].start,
                                  ex.resolved_events_meta[k].end)

\* the parser read a snippet inside a candidate that stayed unresolved, and
\* the events of the rest of the text were returned
C20_Witness ==
    /\ Extracted
    /\ events # <<>>
    /\ \E n \in 1..Len(ex.unresolved_candidates) : ReadInside(ex.unresolved_candidates[n])

-----------------------------------------------------------------------------
(* SpecLoop: extract_events on texts whose anchors take several iterations *)

AfterMiddle == <<"2 days", "after", "middle", Terminator>>
FarEndAfterStart == <<Filler, "End", "3 days", "after", "Start", Terminator>>

StartOnJanForDays == <<"Start", "on", "Jan 1", "for", "3 days", Terminator>>

LoopClauses ==
    {AfterMiddle, StartOnJan, FarEndAfterStart, MiddleAfterStart, StartOnJanForDays,
     Unrelated}

LoopTexts ==
    {TextOf(Flatten(cs)) : cs \in UNION {[1..n -> LoopClauses] : n \in 1..MaxClauses}}

InitLoop ==
    /\ input \in [text : LoopTexts,
                  reference_date : {Aware(ReferenceWall, 0), NaiveDt(ReferenceWall)}]
    /\ out = <<>>
    /\ ex = EntryFrame

\* a thread that is not stopped takes its next step: weak fairness of
\* NextExtract, which is enabled exactly until the call is over
SpecLoop ==
    /\ InitLoop /\ [][NextExtract]_vars
    /\ ([]<>(ex.pc = "done") \/ []<><<NextExtract>>_vars)

\* C21: the resolution loop ends for every input: no more than
\* |anchors| + 1 iterations are run, an iteration that is followed by
\* another has resolved one of the candidates it went through, and the
\* call comes to its end.
C21_LoopTerminates ==
    /\ [](ex.iteration <= Len(ex.anchored_candidates) + 1)
    /\ [][(ex.pc = "loop" /\ ex'.pc = "loop" /\ ex'.iteration # ex.iteration) =>
             \E l \in 1..Len(ex.links) : \E n \in 1..Len(ex.unresolved_candidates) :
                 ex.links[l].cand = ex.unresolved_candidates[n]]_vars
    /\ <>(ex.pc = "done")

\* the loop has ended after two iterations that resolved a candidate each
C21_Witness ==
    /\ ex.pc = "done"
    /\ Extracted
    /\ ex.iteration = 2
    /\ Len(ex.links) = 2

-----------------------------------------------------------------------------
(* The intervals of the engine *)

\* the end the interval of an event is to have
IntervalEnd(event) ==
    IF event.has_ends_at THEN event.ends_at
    ELSE IF event.has_duration /\ event.duration_minutes > 0
    THEN [event.timestamp EXCEPT !.wall = @ + event.duration_minutes * Minute]
    ELSE [event.timestamp EXCEPT !.wall = @ + Microsecond]

\* C22: the engine resolves a valid event to the interval from its
\* timestamp to ends_at when set, else to timestamp + duration_minutes when
\* that is later, else to timestamp + 1 microsecond; the interval has
\* start < end and get_relation on two valid events returns a relation.
C22_IntervalResolved ==
    (BothValid /\ Called("get_relation")) =>
        /\ \A event \in {input.cause, input.effect} :
              /\ resolve_interval(event) =
                     [start |-> event.timestamp, end |-> IntervalEnd(event)]
              /\ DtLt(resolve_interval(event).start, resolve_interval(event).end)
        /\ out["get_relation"].raised = "none"

\* a cause whose ends_at is not its timestamp + duration_minutes, against a
\* point event
C22_Witness ==
    /\ BothValid /\ Called("get_relation")
    /\ input.cause.has_ends_at /\ input.cause.has_duration
    /\ ~DtEq(input.cause.ends_at,
             DtAdd(input.cause.timestamp, input.cause.duration_minutes * Minute))
    /\ ~input.effect.has_ends_at /\ ~input.effect.has_duration
    /\ out["get_relation"].raised = "none"

-----------------------------------------------------------------------------
(* The events of resolved candidates *)

\* the referent of link l, and the whole seconds of its candidate's offset
Referent(l) == ex.resolved_events_meta[ex.links[l].referent].event
OffsetSeconds(l) ==
    (ex.links[l].cand.duration_val \div 10) * UnitSeconds(ex.links[l].cand.unit \o "s")

\* C23: the event of a candidate resolved against the referent m is at
\* m.timestamp + D for 'after' and m.timestamp - D for 'before', has the
\* granularity of m and the candidate's full match as its source_snippet.
C23_DerivedEventFromReferent ==
    \A l \in 1..Len(ex.links) :
        /\ DerivedOf(ex.links[l].cand) # {}
        /\ \A k \in DerivedOf(ex.links[l].cand) :
              LET event == ex.resolved_events_meta[k].event
              IN /\ event.timestamp.off = Referent(l).timestamp.off
                 /\ ex.links[l].cand.direction = "after" =>
                       event.timestamp.wall = Referent(l).timestamp.wall + OffsetSeconds(l)
                 /\ ex.links[l].cand.direction = "before" =>
                       event.timestamp.wall = Referent(l).timestamp.wall - OffsetSeconds(l)
                 /\ event.granularity = Referent(l).granularity
                 /\ event.source_snippet = WordsOf(ex.links[l].cand.full_match)

\* returned: an event three days before a referent that is PRECISE
C23_Witness ==
    /\ Extracted
    /\ \E l \in 1..Len(ex.links) :
          /\ ex.links[l].cand.direction = "before"
          /\ Referent(l).granularity = "PRECISE"
          /\ \E k \in 1..Len(events) :
                 /\ events[k].source_snippet = WordsOf(ex.links[l].cand.full_match)
                 /\ events[k].timestamp.wall = Referent(l).timestamp.wall - 3 * SecondsPerDay

-----------------------------------------------------------------------------
(* SpecDuration: _parse_duration applied to a value and a unit *)

\* the units of ANCHOR_REGEX
Units == {"year", "month", "week", "day", "hour", "minute", "second"}

FixedUnits == {"week", "day", "hour", "minute", "second"}

\* the values, in tenths: 25 is 2.5
MaxTenths == 30

InitDuration ==
    /\ input \in [value : 0..MaxTenths, unit : Units]
    /\ out = <<>>
    /\ ex = NoFrame

\* self._parse_duration(value, unit)
CallParseDuration ==
    /\ ~Called("parse_duration")
    /\ out' = out @@ ("parse_duration" :> Returned(parse_duration(input.value, input.unit)))
    /\ UNCHANGED <<input, ex>>

SpecDuration == InitDuration /\ [][CallParseDuration]_vars

\* C24: the delta of a fixed unit is exact, fractions included (2.5 days
\* is 60 hours); the delta of month and year is the value truncated toward
\* zero.
C24_FixedUnitsExact ==
    Called("parse_duration") =>
        LET delta == out["parse_duration"].val
        IN /\ delta.unit = input.unit \o "s"
           /\ input.unit \in FixedUnits =>
                 10 * delta.n * UnitSeconds(delta.unit)
                     = input.value * UnitSeconds(delta.unit)
           /\ input.unit \notin FixedUnits => delta.n = input.value \div 10

-----------------------------------------------------------------------------
(* The durations of extracted events *)

\* the event of meta k was read at token i and "for" and a number with its
\* unit follow it at once
DurationFollows(k, i) ==
    /\ i + 2 <= Len(input.text)
    /\ ~ex.resolved_events_meta[k].is_anchored
    /\ ex.resolved_events_meta[k].start = TokStart(input.text, i)
    /\ ex.resolved_events_meta[k].end = TokEnd(input.text, i)
    /\ input.text[i + 1].tok = "for"
    /\ input.text[i + 2].tok \in NumToks

\* the minutes of a number-and-unit token
MinutesOf(tok) == (NumTenths(tok) * (UnitSeconds(NumUnit(tok) \o "s") \div 60)) \div 10

\* C25: an event whose snippet is followed at once by 'for <value> <unit>'
\* carries duration_minutes, the minutes of the fragment, and ends_at,
\* its timestamp + that duration.
C25_DurationAttached ==
    Extracted =>
        \A k \in 1..Len(ex.resolved_events_meta) : \A i \in 1..Len(input.text) :
            DurationFollows(k, i) =>
                LET event == ex.resolved_events_meta[k].event
                IN /\ event.has_duration
                   /\ event.duration_minutes = MinutesOf(input.text[i + 2].tok)
                   /\ event.has_ends_at
                   /\ event.ends_at =
                         [event.timestamp EXCEPT !.wall = @ + 60 * event.duration_minutes]

-----------------------------------------------------------------------------
(* SpecTriple: the engine applied to the pairs of three events *)

\* the valid events in UTC, and the point events of the other zone
TripleEvents ==
    {event \in ValidEvents :
        event.timestamp.off = 0 \/ (~event.has_duration /\ ~event.has_ends_at)}

InitTriple ==
    /\ input \in [a : TripleEvents, b : TripleEvents, c : TripleEvents]
    /\ out = <<>>
    /\ ex = NoFrame

\* the three calls of test_causality_transitivity
CallPairs ==
    /\ ~Called("ab")
    /\ out' = out @@ ("ab" :> is_plausible_cause(input.a, input.b))
                  @@ ("bc" :> is_plausible_cause(input.b, input.c))
                  @@ ("ac" :> is_plausible_cause(input.a, input.c))
    /\ UNCHANGED <<input, ex>>

SpecTriple == InitTriple /\ [][CallPairs]_vars

\* C26: for valid events a, b and c, when a is a plausible cause of b and b
\* of c, a is a plausible cause of c.
C26_PlausibleCauseTransitive ==
    (Called("ab") /\ out["ab"].val /\ out["bc"].val) => out["ac"] = ReturnedBool(TRUE)

\* a meets b and b meets c: three events of which no two are the same
C26_Witness ==
    /\ Called("ab") /\ out["ab"].val /\ out["bc"].val /\ out["ac"].val
    /\ get_relation(input.a, input.b) = Returned("MEETS")
    /\ get_relation(input.b, input.c) = Returned("MEETS")

-----------------------------------------------------------------------------
(* SpecThreads: two calls of extract_events on worker threads sharing one
   extractor. ex and input are the frame and the arguments of the thread
   that runs, out["parked"] holds those of the thread that waits: the
   extractor has no attributes and extract_events works on its locals. *)

ThreadClauses == {StartOnJan, MiddleAfterStart}

ThreadTexts ==
    {TextOf(Flatten(cs)) : cs \in UNION {[1..n -> ThreadClauses] : n \in 1..MaxClauses}}

ThreadArgs(call) ==
    [text : ThreadTexts, reference_date : {Aware(ReferenceWall, 0)}, call : {call}]

\* a thread that waits: its arguments, its frame and, when it is over, its
\* outcome
Thread(args, frame, outcome) == [input |-> args, ex |-> frame, outcome |-> outcome]

InitThreads ==
    /\ input \in ThreadArgs(1)
    /\ \E args \in ThreadArgs(2) : out = ("parked" :> Thread(args, EntryFrame, <<>>))
    /\ ex = EntryFrame

\* the calls have been run one after the other before they are run together
RunTogether == Called("alone")

\* the scheduler takes the thread that runs off the processor and gives it
\* to the one that waits; while the calls are run one after the other, only
\* when the thread that runs is over
Switch ==
    /\ out["parked"].ex.pc # "done"
    /\ RunTogether \/ ex.pc = "done"
    /\ LET waiting == out["parked"]
           running == Thread(input, ex, IF Called("extract_events")
                                        THEN <<out["extract_events"]>> ELSE <<>>)
           kept == (DOMAIN out \ {"extract_events"})
                       \cup (IF waiting.outcome # <<>> THEN {"extract_events"} ELSE {})
       IN /\ out' = [k \in kept |-> IF k = "parked" THEN running
                                    ELSE IF k = "extract_events" THEN waiting.outcome[1]
                                    ELSE out[k]]
          /\ input' = waiting.input
          /\ ex' = waiting.ex

\* both calls have been run alone: their outcomes are kept and the two
\* calls are made again, now together
StartTogether ==
    /\ ~RunTogether
    /\ ex.pc = "done" /\ out["parked"].ex.pc = "done"
    /\ out' = ("alone" :> (input.call :> Earlier(out["extract_events"])
                             @@ out["parked"].input.call
                                    :> Earlier(out["parked"].outcome[1])))
                 @@ ("parked" :> Thread(out["parked"].input, EntryFrame, <<>>))
    /\ ex' = EntryFrame
    /\ UNCHANGED input

NextThreads ==
    \/ BeginExtraction \/ ResolveCandidate \/ EndIteration \/ ReturnEvents
    \/ Switch \/ StartTogether

SpecThreads == InitThreads /\ [][NextThreads]_vars

\* two outcomes raise alike or return events that agree, place by place,
\* in everything but the id
SameButIds(o1, o2) ==
    /\ o1.raised = o2.raised
    /\ o1.raised = "none" =>
          /\ Len(o1.val) = Len(o2.val)
          /\ \A k \in 1..Len(o1.val) :
                [o1.val[k] EXCEPT !.id = 0] = [o2.val[k] EXCEPT !.id = 0]

-----------------------------------------------------------------------------
(* SpecFacade: agent.ChronosTimekeeperAsync and agent.ChronosTimekeeper *)

\* a plausible slip: the reference passed first
check_compliance_swapped(target, reference, rule) ==
    validate(rule, reference.timestamp, target.timestamp)

\* ChronosTimekeeperAsync.check_compliance
check_compliance(target, reference, rule) ==
    validate(rule, target.timestamp, reference.timestamp)

\* ChronosTimekeeperAsync.analyze_causality
analyze_causality(cause, effect) == is_plausible_cause(cause, effect)

\* ChronosTimekeeper.check_compliance: anyio.run gives what the coroutine
\* returns and raises what it raises
sync_check_compliance(target, reference, rule) == check_compliance(target, reference, rule)

\* ChronosTimekeeper.analyze_causality
sync_analyze_causality(cause, effect) == analyze_causality(cause, effect)

InitFacade ==
    /\ input \in [target : TripleEvents \cup NaiveEvents,
                  reference : TripleEvents \cup NaiveEvents,
                  rule : {MaxDelayRule(d * Minute) : d \in 0..MaxDelay}]
    /\ out = <<>>
    /\ ex = NoFrame

\* await agent.check_compliance(target, reference, rule, context=context)
CallCheckCompliance ==
    /\ ~Called("check_compliance")
    /\ out' = out @@ ("check_compliance" :>
                         check_compliance(input.target, input.reference, input.rule))
    /\ UNCHANGED <<input, ex>>

\* ChronosTimekeeper(...).check_compliance(target, reference, rule, context=context)
CallSyncCheckCompliance ==
    /\ Called("check_compliance") /\ ~Called("sync_check_compliance")
    /\ out' = out @@ ("sync_check_compliance" :>
                         sync_check_compliance(input.target, input.reference, input.rule))
    /\ UNCHANGED <<input, ex>>

\* await agent.analyze_causality(cause, effect, context=context), on the
\* target as the cause and the reference as the effect
CallAnalyzeCausality ==
    /\ Called("sync_check_compliance") /\ ~Called("analyze_causality")
    /\ out' = out @@ ("analyze_causality" :>
                         analyze_causality(input.target, input.reference))
    /\ UNCHANGED <<input, ex>>

\* ChronosTimekeeper(...).analyze_causality(cause, effect, context=context)
CallSyncAnalyzeCausality ==
    /\ Called("analyze_causality") /\ ~Called("sync_analyze_causality")
    /\ out' = out @@ ("sync_analyze_causality" :>
                         sync_analyze_causality(input.target, input.reference))
    /\ UNCHANGED <<input, ex>>

NextFacade ==
    \/ CallCheckCompliance \/ CallSyncCheckCompliance
    \/ CallAnalyzeCausality \/ CallSyncAnalyzeCausality

SpecFacade == InitFacade /\ [][NextFacade]_vars

-----------------------------------------------------------------------------
\* C29: when the resolution loop has ended, no candidate dropped as
\* unresolved has a referent in the final resolved set: the cap of
\* |anchors| + 1 iterations never ends the loop before that.
C29_DroppedHaveNoReferent ==
    (ex.pc = "sort" \/ Extracted) =>
        \A k \in 1..Len(ex.unresolved_candidates) :
            best_match(input.text, ex.unresolved_candidates[k],
                       ex.resolved_events_meta) = None

\* a candidate is dropped after it was tried again in a second iteration,
\* against a resolved set that another candidate was added to in the first
C29_Witness ==
    /\ Extracted
    /\ ex.unresolved_candidates # <<>>
    /\ ex.iteration >= 2
    /\ ex.links # <<>>

-----------------------------------------------------------------------------
\* the resolved list before a step is the head of the list after it
Appended ==
    /\ Len(ex'.resolved_events_meta) >= Len(ex.resolved_events_meta)
    /\ SubSeq(ex'.resolved_events_meta, 1, Len(ex.resolved_events_meta))
           = ex.resolved_events_meta

\* C30: a step of the resolution loop only appends to the resolved list, so
\* that no resolved event is recomputed, removed, replaced or modified; no
\* candidate is linked twice; and the events returned are at most the Pass-1
\* events left by the pruning plus the candidates.
C30_AppendOnly ==
    /\ [][ex.pc \in {"loop", "sort"} => Appended]_vars
    /\ [](\A j, k \in 1..Len(ex.links) : j # k => ex.links[j].cand # ex.links[k].cand)
    /\ [](Extracted =>
            Len(events) <= (Len(ex.resolved_events_meta) - Len(ex.links))
                               + Len(ex.anchored_candidates))

\* a candidate was linked in the first iteration and the resolved list then
\* grew by an event derived in the second
C30_Witness ==
    /\ Extracted
    /\ ex.iteration >= 2
    /\ \E j, k \in 1..Len(ex.links) :
          /\ j < k
          /\ ex.links[k].referent > ex.links[j].n

=============================================================================
